---- MODULE Spec2Model ----
(***************************************************************************)
(* Model of cli/pkg/cli/diff.go of selik/replicate: the `diff` command,    *)
(* which resolves two prefixes to checkpoints (loadCheckpoint), fetches    *)
(* their experiments and renders a table of differing params and metrics   *)
(* (printDiff, printMapDiff, mapString).                                   *)
(*                                                                         *)
(* Two specifications:                                                     *)
(*   SpecMap  mapString and printMapDiff applied to every pair of string   *)
(*            maps over a bounded key and value universe, under every      *)
(*            iteration order of the Go maps involved;                     *)
(*   Spec     printDiff run against the project collaborator, whose        *)
(*            lookups answer with any outcome their Go signatures and the  *)
(*            project contract allow.                                      *)
(***************************************************************************)
EXTENDS Integers, Sequences, FiniteSets, TLC

VARIABLES
    mpc,        \* SpecMap: which function has been applied ("start" before)
    map1, map2, \* SpecMap: the two map[string]string arguments
    diffMap,    \* SpecMap: the map returned by mapString
    au,         \* aurora.Aurora: TRUE when colours are enabled
    w,          \* the tabwriter's buffered rows, each a tuple of three cells
    pc,         \* Spec: position inside printDiff
    prefix1, prefix2,       \* Spec: the arguments of printDiff
    com1, com2, exp1, exp2, \* Spec: the locals of printDiff (pointers)
    err,        \* Spec: the error printDiff returned (Nil: none)
    out,        \* Spec: rows that reached the io.Writer `out`
    trace       \* Spec: lookups made, notices emitted and loadCheckpoint returns, in order

vars == <<mpc, map1, map2, diffMap, au, w, pc, prefix1, prefix2,
          com1, com2, exp1, exp2, err, out, trace>>

mapVars == <<mpc, map1, map2, diffMap>>
diffVars == <<pc, prefix1, prefix2, com1, com2, exp1, exp2, err, out, trace>>

(***************************************************************************)
(* Bounds                                                                  *)
(***************************************************************************)
\* Number of distinct map keys in the universe of SpecMap.
NumKeys == 3

(***************************************************************************)
(* Go values: pointers, strings, maps                                      *)
(***************************************************************************)
\* A Go pointer (or error interface) is a sequence of length at most one.
Nil == << >>
Ptr(x) == <<x>>
Deref(p) == p[1]

\* Key names, and the bytes of each for Go's string comparison.
KeyNames == <<"lr", "layers", "l", "acc", "loss">>

Bytes(s) ==
    CASE s = "lr"     -> <<108, 114>>
      [] s = "layers" -> <<108, 97, 121, 101, 114, 115>>
      [] s = "l"      -> <<108>>
      [] s = "acc"    -> <<97, 99, 99>>
      [] s = "loss"   -> <<108, 111, 115, 115>>

Min(a, b) == IF a < b THEN a ELSE b

Keys == {KeyNames[i] : i \in 1..Min(NumKeys, Len(KeyNames))}

\* Map values of SpecMap: any Go string, among them the text of the placeholder.
Strings == {"0.1", "(not set)"}

\* map[string]string over the universe: every partial function Keys -> Strings.
StringMaps == UNION {[D -> Strings] : D \in SUBSET Keys}

EmptyMap == << >>

Put(m, k, v) == [x \in DOMAIN m \cup {k} |-> IF x = k THEN v ELSE m[x]]

\* Every order in which `range m` may visit the keys of a Go map.
RangeOrders(m) ==
    LET D == DOMAIN m
        n == Cardinality(D)
    IN {o \in [1..n -> D] : \A i, j \in 1..n : i # j => o[i] # o[j]}

(***************************************************************************)
(* mapString (diff.go:190-215)                                             *)
(***************************************************************************)
\* Mutant of rangeLeft: the comparison `v != right[k]` is dropped.
RECURSIVE rangeLeftNoCompare(_, _, _, _)
rangeLeftNoCompare(order, left, right, result) ==
    IF order = << >> THEN result
    ELSE LET k == Head(order)
             v == left[k]
             next == IF k \in DOMAIN right
                     THEN Put(result, k, <<Ptr(v), Ptr(right[k])>>)
                     ELSE Put(result, k, <<Ptr(v), Nil>>)
         IN rangeLeftNoCompare(Tail(order), left, right, next)

\* First loop: keys of left.
RECURSIVE rangeLeft(_, _, _, _)
rangeLeft(order, left, right, result) ==
    IF order = << >> THEN result
    ELSE LET k == Head(order)
             v == left[k]
             next == IF k \in DOMAIN right
                     THEN IF v # right[k]
                          THEN Put(result, k, <<Ptr(v), Ptr(right[k])>>)
                          ELSE result
                     ELSE Put(result, k, <<Ptr(v), Nil>>)
         IN rangeLeft(Tail(order), left, right, next)

\* Mutant of rangeRight: a key just in right is stored on the left side.
RECURSIVE rangeRightOnLeftSide(_, _, _, _)
rangeRightOnLeftSide(order, left, right, result) ==
    IF order = << >> THEN result
    ELSE LET k == Head(order)
             v == right[k]
             next == IF k \notin DOMAIN left
                     THEN Put(result, k, <<Ptr(v), Nil>>)
                     ELSE result
         IN rangeRightOnLeftSide(Tail(order), left, right, next)

\* Mutant of rangeRight: the second loop does nothing.
rangeRightSkipped(order, left, right, result) == result

\* Second loop: keys of right that left lacks.
RECURSIVE rangeRight(_, _, _, _)
rangeRight(order, left, right, result) ==
    IF order = << >> THEN result
    ELSE LET k == Head(order)
             v == right[k]
             next == IF k \notin DOMAIN left
                     THEN Put(result, k, <<Nil, Ptr(v)>>)
                     ELSE result
         IN rangeRight(Tail(order), left, right, next)

\* lorder and rorder are the orders in which the two range loops visit left and right.
mapString(left, right, lorder, rorder) ==
    rangeRight(rorder, left, right, rangeLeft(lorder, left, right, EmptyMap))

(***************************************************************************)
(* printMapDiff (diff.go:101-132)                                          *)
(***************************************************************************)
\* Go's < on strings: bytewise lexicographic, a proper prefix first.
RECURSIVE BytesLess(_, _)
BytesLess(a, b) ==
    IF b = << >> THEN FALSE
    ELSE IF a = << >> THEN TRUE
    ELSE IF Head(a) # Head(b) THEN Head(a) < Head(b)
    ELSE BytesLess(Tail(a), Tail(b))

StringLess(a, b) == BytesLess(Bytes(a), Bytes(b))

\* Insert kv into a sequence sorted by key.
RECURSIVE insertSorted(_, _)
insertSorted(kv, s) ==
    IF s = << >> THEN <<kv>>
    ELSE IF StringLess(kv.key, Head(s).key) THEN <<kv>> \o s
    ELSE <<Head(s)>> \o insertSorted(kv, Tail(s))

\* Mutant of sortSlice: the slice is left in iteration order.
sortSliceSkipped(keyVals) == keyVals

\* sort.Slice(keyVals, func(i, j) { keyVals[i].key < keyVals[j].key }); keys are unique.
RECURSIVE sortSlice(_)
sortSlice(keyVals) ==
    IF keyVals = << >> THEN << >>
    ELSE insertSorted(Head(keyVals), sortSlice(Tail(keyVals)))

NotSet == "(not set)"
NoDifference == "(no difference)"

\* aurora's Bold and Faint: ANSI markers around the text when colours are enabled.
Bold(a, text) == IF a THEN "ESC[1m" \o text \o "ESC[0m" ELSE text
Faint(a, text) == IF a THEN "ESC[2m" \o text \o "ESC[0m" ELSE text

\* fmt.Fprintf(w, "%s:\t%s\t%s\n", kv.key, left, right)
keyRow(kv) ==
    LET left == IF kv.value[1] # Nil THEN Deref(kv.value[1]) ELSE NotSet
        right == IF kv.value[2] # Nil THEN Deref(kv.value[2]) ELSE NotSet
    IN <<kv.key \o ":", left, right>>

\* fmt.Fprintf(w, "%s\t\t\n", au.Faint("(no difference)"))
placeholderRow(a) == <<Faint(a, NoDifference), "", "">>

\* lorder and rorder are mapString's range orders; dorder that of `range diffMap`.
printMapDiff(buf, a, m1, m2, lorder, rorder, dorder) ==
    LET d == mapString(m1, m2, lorder, rorder)
        keyVals == [i \in 1..Len(dorder) |-> [key |-> dorder[i], value |-> d[dorder[i]]]]
        sorted == sortSlice(keyVals)
    IN IF Len(sorted) > 0
       THEN buf \o [i \in 1..Len(sorted) |-> keyRow(sorted[i])]
       ELSE buf \o <<placeholderRow(a)>>

(***************************************************************************)
(* The project collaborator (package project) and param.Value              *)
(***************************************************************************)
\* An object ID is kept as a pair: its first seven bytes and the rest.
ShortID(id) == id[1]

\* param.Value: a tagged union; String() is its canonical rendering.
IntValue(n) == [Type |-> "int", IntVal |-> n, StringVal |-> "", BoolVal |-> FALSE]
StringValue(t) == [Type |-> "string", IntVal |-> 0, StringVal |-> t, BoolVal |-> FALSE]
BoolValue(b) == [Type |-> "bool", IntVal |-> 0, StringVal |-> "", BoolVal |-> b]

Digits == <<"0", "1", "2", "3", "4", "5", "6", "7", "8", "9">>

RECURSIVE Itoa(_)
Itoa(n) ==
    IF n < 0 THEN "-" \o Itoa(0 - n)
    ELSE IF n < 10 THEN Digits[n + 1]
    ELSE Itoa(n \div 10) \o Digits[(n % 10) + 1]

ValueString(v) ==
    CASE v.Type = "int"    -> Itoa(v.IntVal)
      [] v.Type = "string" -> v.StringVal
      [] v.Type = "bool"   -> IF v.BoolVal THEN "true" ELSE "false"

\* paramMapToStringMap (diff.go:134-140)
paramMapToStringMap(params) == [k \in DOMAIN params |-> ValueString(params[k])]

\* The experiments and checkpoints a lookup may answer with.
ExpA == [ID |-> <<"e1a0000", "001">>,
         Params |-> [lr |-> StringValue("0.1"), layers |-> IntValue(2)]]
ExpB == [ID |-> <<"e1b0000", "002">>,
         Params |-> [lr |-> StringValue("0.2"), layers |-> StringValue("2")]]
ExpC == [ID |-> <<"e1a0000", "003">>, Params |-> EmptyMap]
Experiments == {ExpA, ExpB, ExpC}

ChkA1 == [ID |-> <<"c1a0000", "001">>, ExperimentID |-> ExpA.ID,
          Metrics |-> [acc |-> IntValue(70), loss |-> IntValue(12)]]
ChkA2 == [ID |-> <<"c1a0000", "002">>, ExperimentID |-> ExpA.ID,
          Metrics |-> [acc |-> IntValue(90)]]
ChkB1 == [ID |-> <<"c2b0000", "001">>, ExperimentID |-> ExpB.ID,
          Metrics |-> [acc |-> StringValue("90"), loss |-> BoolValue(TRUE)]]
\* A checkpoint whose experiment is not stored.
ChkZ1 == [ID |-> <<"c3z0000", "001">>, ExperimentID |-> <<"e9z0000", "009">>,
          Metrics |-> EmptyMap]
Checkpoints == {ChkA1, ChkA2, ChkB1, ChkZ1}

Prefixes == {"e1a", "c"}

\* An error value: a message and the argument it is formatted with.
Error(msg, arg) == Ptr([msg |-> msg, arg |-> arg])

\* What a lookup returned: at most one of the pointers is set, or err is.
Result(c, e, er) == [Checkpoint |-> c, Experiment |-> e, err |-> er]
NoResult == Result(Nil, Nil, Nil)

StorageError == Error("storage: read failed", "")

\* proj.CheckpointOrExperimentFromPrefix(prefix): an error, a checkpoint or an experiment.
FromPrefixResults(prefix) ==
    {Result(Nil, Nil, Error("not found", prefix)),
     Result(Nil, Nil, Error("ambiguous prefix", prefix)),
     Result(Nil, Nil, StorageError)}
    \cup {Result(Ptr(c), Nil, Nil) : c \in Checkpoints}
    \cup {Result(Nil, Ptr(e), Nil) : e \in Experiments}

\* proj.ExperimentBestCheckpoint(id) and proj.ExperimentLatestCheckpoint(id):
\* an error, no checkpoint, or a checkpoint of that experiment.
ExperimentCheckpointResults(id) ==
    {Result(Nil, Nil, StorageError), NoResult}
    \cup {Result(Ptr(c), Nil, Nil) : c \in {x \in Checkpoints : x.ExperimentID = id}}

\* proj.ExperimentByID(id): an error or the experiment with that ID.
ExperimentByIDResults(id) ==
    {Result(Nil, Nil, Error("experiment not found", id))}
    \cup {Result(Nil, Ptr(e), Nil) : e \in {x \in Experiments : x.ID = id}}

(***************************************************************************)
(* loadCheckpoint (diff.go:146-177)                                        *)
(***************************************************************************)
Lookup(op, arg, res) == [ev |-> "lookup", op |-> op, arg |-> arg, res |-> res]
\* console.Info(format, prefix)
Info(format, prefix) == [ev |-> "info", op |-> format, arg |-> prefix, res |-> NoResult]
Return(fn, arg, c, er) == [ev |-> "return", op |-> fn, arg |-> arg, res |-> Result(c, Nil, er)]

BestNotice == "%q matches an experiment, picking the best checkpoint"
LatestNotice == "%q is an experiment, picking the latest checkpoint"
EmptyExperimentMsg ==
    "Could not pick best checkpoint for experiment %q: it does not have any checkpoints."

\* The value loadCheckpoint returns and the lookups and notices it made on the way.
Loaded(c, er, events) == [checkpoint |-> c, err |-> er, events |-> events]

\* Mutant of loadCheckpoint: the latest checkpoint takes precedence over the best one.
loadCheckpointLatestPreferred(prefix, objRes, bestRes, latestRes) ==
    LET fromPrefix == Lookup("CheckpointOrExperimentFromPrefix", prefix, objRes)
    IN IF objRes.err # Nil THEN Loaded(Nil, objRes.err, <<fromPrefix>>)
       ELSE IF objRes.Checkpoint # Nil THEN Loaded(objRes.Checkpoint, Nil, <<fromPrefix>>)
       ELSE
       LET exp == Deref(objRes.Experiment)
           best == Lookup("ExperimentBestCheckpoint", exp.ID, bestRes)
           latest == Lookup("ExperimentLatestCheckpoint", exp.ID, latestRes)
           events == <<fromPrefix, best, Info(LatestNotice, prefix), latest>>
       IN IF bestRes.err # Nil THEN Loaded(Nil, bestRes.err, <<fromPrefix, best>>)
          ELSE IF latestRes.err # Nil THEN Loaded(Nil, latestRes.err, events)
          ELSE IF latestRes.Checkpoint # Nil THEN Loaded(latestRes.Checkpoint, Nil, events)
          ELSE IF bestRes.Checkpoint # Nil
          THEN Loaded(bestRes.Checkpoint, Nil,
                      <<fromPrefix, best, Info(BestNotice, prefix)>>)
          ELSE Loaded(Nil, Error(EmptyExperimentMsg, ShortID(exp.ID)), events)

\* Mutant of loadCheckpoint: a matched checkpoint is traded for the best
\* checkpoint of its experiment.
loadCheckpointUpgradesExact(prefix, objRes, bestRes, latestRes) ==
    LET fromPrefix == Lookup("CheckpointOrExperimentFromPrefix", prefix, objRes)
    IN IF objRes.err # Nil THEN Loaded(Nil, objRes.err, <<fromPrefix>>)
       ELSE
       LET id == IF objRes.Checkpoint # Nil
                 THEN Deref(objRes.Checkpoint).ExperimentID
                 ELSE Deref(objRes.Experiment).ID
           best == Lookup("ExperimentBestCheckpoint", id, bestRes)
           latest == Lookup("ExperimentLatestCheckpoint", id, latestRes)
       IN IF bestRes.err # Nil THEN Loaded(Nil, bestRes.err, <<fromPrefix, best>>)
          ELSE IF bestRes.Checkpoint # Nil
          THEN Loaded(bestRes.Checkpoint, Nil,
                      <<fromPrefix, best, Info(BestNotice, prefix)>>)
          ELSE IF objRes.Checkpoint # Nil
          THEN Loaded(objRes.Checkpoint, Nil, <<fromPrefix, best>>)
          ELSE
          LET events == <<fromPrefix, best, Info(LatestNotice, prefix), latest>>
          IN IF latestRes.err # Nil THEN Loaded(Nil, latestRes.err, events)
             ELSE IF latestRes.Checkpoint = Nil
             THEN Loaded(Nil, Error(EmptyExperimentMsg, ShortID(id)), events)
             ELSE Loaded(latestRes.Checkpoint, Nil, events)

\* Mutant of loadCheckpoint: the empty-experiment error names the prefix, not the
\* experiment's short ID.
loadCheckpointNamesPrefix(prefix, objRes, bestRes, latestRes) ==
    LET fromPrefix == Lookup("CheckpointOrExperimentFromPrefix", prefix, objRes)
    IN IF objRes.err # Nil THEN Loaded(Nil, objRes.err, <<fromPrefix>>)
       ELSE IF objRes.Checkpoint # Nil THEN Loaded(objRes.Checkpoint, Nil, <<fromPrefix>>)
       ELSE
       LET exp == Deref(objRes.Experiment)
           best == Lookup("ExperimentBestCheckpoint", exp.ID, bestRes)
           latest == Lookup("ExperimentLatestCheckpoint", exp.ID, latestRes)
       IN IF bestRes.err # Nil THEN Loaded(Nil, bestRes.err, <<fromPrefix, best>>)
          ELSE IF bestRes.Checkpoint # Nil
          THEN Loaded(bestRes.Checkpoint, Nil,
                      <<fromPrefix, best, Info(BestNotice, prefix)>>)
          ELSE
          LET events == <<fromPrefix, best, Info(LatestNotice, prefix), latest>>
          IN IF latestRes.err # Nil THEN Loaded(Nil, latestRes.err, events)
             ELSE IF latestRes.Checkpoint = Nil
             THEN Loaded(Nil, Error(EmptyExperimentMsg, prefix), events)
             ELSE Loaded(latestRes.Checkpoint, Nil, events)

\* Mutant of loadCheckpoint: the latest notice is emitted only once the latest
\* lookup has returned a checkpoint.
loadCheckpointNoticeAfterLookup(prefix, objRes, bestRes, latestRes) ==
    LET fromPrefix == Lookup("CheckpointOrExperimentFromPrefix", prefix, objRes)
    IN IF objRes.err # Nil THEN Loaded(Nil, objRes.err, <<fromPrefix>>)
       ELSE IF objRes.Checkpoint # Nil THEN Loaded(objRes.Checkpoint, Nil, <<fromPrefix>>)
       ELSE
       LET exp == Deref(objRes.Experiment)
           best == Lookup("ExperimentBestCheckpoint", exp.ID, bestRes)
           latest == Lookup("ExperimentLatestCheckpoint", exp.ID, latestRes)
       IN IF bestRes.err # Nil THEN Loaded(Nil, bestRes.err, <<fromPrefix, best>>)
          ELSE IF bestRes.Checkpoint # Nil
          THEN Loaded(bestRes.Checkpoint, Nil,
                      <<fromPrefix, best, Info(BestNotice, prefix)>>)
          ELSE
          LET events == <<fromPrefix, best, latest>>
          IN IF latestRes.err # Nil THEN Loaded(Nil, latestRes.err, events)
             ELSE IF latestRes.Checkpoint = Nil
             THEN Loaded(Nil, Error(EmptyExperimentMsg, ShortID(exp.ID)), events)
             ELSE Loaded(latestRes.Checkpoint, Nil,
                         events \o <<Info(LatestNotice, prefix)>>)

\* objRes, bestRes and latestRes are what the three lookups answer when called.
loadCheckpoint(prefix, objRes, bestRes, latestRes) ==
    LET fromPrefix == Lookup("CheckpointOrExperimentFromPrefix", prefix, objRes)
    IN IF objRes.err # Nil THEN Loaded(Nil, objRes.err, <<fromPrefix>>)
       ELSE IF objRes.Checkpoint # Nil THEN Loaded(objRes.Checkpoint, Nil, <<fromPrefix>>)
       ELSE
       LET exp == Deref(objRes.Experiment)
           best == Lookup("ExperimentBestCheckpoint", exp.ID, bestRes)
           latest == Lookup("ExperimentLatestCheckpoint", exp.ID, latestRes)
       IN IF bestRes.err # Nil THEN Loaded(Nil, bestRes.err, <<fromPrefix, best>>)
          ELSE IF bestRes.Checkpoint # Nil
          THEN Loaded(bestRes.Checkpoint, Nil,
                      <<fromPrefix, best, Info(BestNotice, prefix)>>)
          ELSE
          LET events == <<fromPrefix, best, Info(LatestNotice, prefix), latest>>
          IN IF latestRes.err # Nil THEN Loaded(Nil, latestRes.err, events)
             ELSE IF latestRes.Checkpoint = Nil
             THEN Loaded(Nil, Error(EmptyExperimentMsg, ShortID(exp.ID)), events)
             ELSE Loaded(latestRes.Checkpoint, Nil, events)

\* The answers the best and latest lookups can give after objRes.
CheckpointResultsAfter(objRes) ==
    IF objRes.err = Nil /\ objRes.Experiment # Nil
    THEN ExperimentCheckpointResults(Deref(objRes.Experiment).ID)
    ELSE {NoResult}

(***************************************************************************)
(* printDiff (diff.go:64-99)                                               *)
(***************************************************************************)
IdleMap == mpc = "idle" /\ map1 = EmptyMap /\ map2 = EmptyMap /\ diffMap = EmptyMap

Init ==
    /\ IdleMap
    /\ au \in BOOLEAN
    /\ w = << >>
    /\ pc = "load1"
    /\ prefix1 \in Prefixes
    /\ prefix2 \in Prefixes
    /\ com1 = Nil /\ com2 = Nil /\ exp1 = Nil /\ exp2 = Nil
    /\ err = Nil
    /\ out = << >>
    /\ trace = << >>

\* com1, err := loadCheckpoint(proj, prefix1)
LoadCheckpoint1 ==
    /\ pc = "load1"
    /\ \E objRes \in FromPrefixResults(prefix1) :
       \E bestRes \in CheckpointResultsAfter(objRes), latestRes \in CheckpointResultsAfter(objRes) :
          LET r == loadCheckpoint(prefix1, objRes, bestRes, latestRes)
          IN /\ trace' = trace \o r.events
                           \o <<Return("loadCheckpoint", prefix1, r.checkpoint, r.err)>>
             /\ IF r.err # Nil
                THEN err' = r.err /\ pc' = "done" /\ UNCHANGED com1
                ELSE com1' = r.checkpoint /\ pc' = "load2" /\ UNCHANGED err
    /\ UNCHANGED <<mapVars, au, w, prefix1, prefix2, com2, exp1, exp2, out>>

\* com2, err := loadCheckpoint(proj, prefix2)
LoadCheckpoint2 ==
    /\ pc = "load2"
    /\ \E objRes \in FromPrefixResults(prefix2) :
       \E bestRes \in CheckpointResultsAfter(objRes), latestRes \in CheckpointResultsAfter(objRes) :
          LET r == loadCheckpoint(prefix2, objRes, bestRes, latestRes)
          IN /\ trace' = trace \o r.events
                           \o <<Return("loadCheckpoint", prefix2, r.checkpoint, r.err)>>
             /\ IF r.err # Nil
                THEN err' = r.err /\ pc' = "done" /\ UNCHANGED com2
                ELSE com2' = r.checkpoint /\ pc' = "exp1" /\ UNCHANGED err
    /\ UNCHANGED <<mapVars, au, w, prefix1, prefix2, com1, exp1, exp2, out>>

\* Mutant of ExperimentByID1: the header rows are written before the experiments are fetched.
ExperimentByID1HeaderFirst ==
    /\ pc = "exp1"
    /\ \E res \in ExperimentByIDResults(Deref(com1).ExperimentID) :
          /\ trace' = trace \o <<Lookup("ExperimentByID", Deref(com1).ExperimentID, res)>>
          /\ IF res.err # Nil
             THEN err' = res.err /\ pc' = "done" /\ UNCHANGED exp1
             ELSE exp1' = res.Experiment /\ pc' = "exp2" /\ UNCHANGED err
    /\ w' = w \o << <<"Checkpoint:", ShortID(Deref(com1).ID), ShortID(Deref(com2).ID)>> >>
    /\ UNCHANGED <<mapVars, au, prefix1, prefix2, com1, com2, exp2, out>>

\* exp1, err := proj.ExperimentByID(com1.ExperimentID)
ExperimentByID1 ==
    /\ pc = "exp1"
    /\ \E res \in ExperimentByIDResults(Deref(com1).ExperimentID) :
          /\ trace' = trace \o <<Lookup("ExperimentByID", Deref(com1).ExperimentID, res)>>
          /\ IF res.err # Nil
             THEN err' = res.err /\ pc' = "done" /\ UNCHANGED exp1
             ELSE exp1' = res.Experiment /\ pc' = "exp2" /\ UNCHANGED err
    /\ UNCHANGED <<mapVars, au, w, prefix1, prefix2, com1, com2, exp2, out>>

\* exp2, err := proj.ExperimentByID(com2.ExperimentID)
ExperimentByID2 ==
    /\ pc = "exp2"
    /\ \E res \in ExperimentByIDResults(Deref(com2).ExperimentID) :
          /\ trace' = trace \o <<Lookup("ExperimentByID", Deref(com2).ExperimentID, res)>>
          /\ IF res.err # Nil
             THEN err' = res.err /\ pc' = "done" /\ UNCHANGED exp2
             ELSE exp2' = res.Experiment /\ pc' = "render" /\ UNCHANGED err
    /\ UNCHANGED <<mapVars, au, w, prefix1, prefix2, com1, com2, exp1, out>>

\* br(w): fmt.Fprintf(w, "\t\t\n")
br == <<"", "", "">>
\* heading(w, au, text): fmt.Fprintf(w, "%s\t\t\n", au.Bold(text))
heading(a, text) == <<Bold(a, text), "", "">>

\* The rows printDiff writes to the tabwriter; po1, po2, pd are the range orders of
\* the params section (mapString's two loops, then printMapDiff's), mo1, mo2, md
\* those of the metrics section.
tableRows(a, c1, c2, e1, e2, po1, po2, pd, mo1, mo2, md) ==
    LET top == << <<"Checkpoint:", ShortID(c1.ID), ShortID(c2.ID)>>,
                  <<"Experiment:", ShortID(c1.ExperimentID), ShortID(c2.ExperimentID)>>,
                  br,
                  heading(a, "Params") >>
        params == printMapDiff(top, a, paramMapToStringMap(e1.Params),
                               paramMapToStringMap(e2.Params), po1, po2, pd)
        mid == params \o <<br, heading(a, "Metrics")>>
        metrics == printMapDiff(mid, a, paramMapToStringMap(c1.Metrics),
                                paramMapToStringMap(c2.Metrics), mo1, mo2, md)
    IN metrics \o <<br>>

\* The rest of printDiff: the table is buffered in the tabwriter and reaches `out`
\* at w.Flush(), whose write may fail part-way.
Render ==
    /\ pc = "render"
    /\ LET c1 == Deref(com1)
           c2 == Deref(com2)
           e1 == Deref(exp1)
           e2 == Deref(exp2)
           p1 == paramMapToStringMap(e1.Params)
           p2 == paramMapToStringMap(e2.Params)
           m1 == paramMapToStringMap(c1.Metrics)
           m2 == paramMapToStringMap(c2.Metrics)
       IN \E po1 \in RangeOrders(p1), po2 \in RangeOrders(p2),
             mo1 \in RangeOrders(m1), mo2 \in RangeOrders(m2) :
          \E pd \in RangeOrders(mapString(p1, p2, po1, po2)),
             md \in RangeOrders(mapString(m1, m2, mo1, mo2)) :
                w' = tableRows(au, c1, c2, e1, e2, po1, po2, pd, mo1, mo2, md)
    /\ \/ out' = w' /\ err' = Nil
       \/ \E n \in 0..(Len(w') - 1) :
             /\ out' = SubSeq(w', 1, n)
             /\ err' = Error("write failed", "")
    /\ pc' = "done"
    /\ UNCHANGED <<mapVars, au, prefix1, prefix2, com1, com2, exp1, exp2, trace>>

Next ==
    \/ LoadCheckpoint1
    \/ LoadCheckpoint2
    \/ ExperimentByID1
    \/ ExperimentByID2
    \/ Render

Spec == Init /\ [][Next]_vars

(***************************************************************************)
(* Properties of loadCheckpoint and printDiff (checked under Spec)         *)
(***************************************************************************)
IsFromPrefix(e) == e.ev = "lookup" /\ e.op = "CheckpointOrExperimentFromPrefix"
IsBest(e) == e.ev = "lookup" /\ e.op = "ExperimentBestCheckpoint"
IsLatest(e) == e.ev = "lookup" /\ e.op = "ExperimentLatestCheckpoint"
IsByID(e) == e.ev = "lookup" /\ e.op = "ExperimentByID"
IsLookup(e) == e.ev = "lookup"
IsInfo(e) == e.ev = "info"
IsReturn(e) == e.ev = "return"

\* One loadCheckpoint call: the events from its prefix lookup to its return.
CallStart(i) ==
    CHOOSE j \in 1..i :
        /\ IsFromPrefix(trace[j])
        /\ \A k \in (j + 1)..i : ~IsFromPrefix(trace[k])
Calls == {SubSeq(trace, CallStart(i), i) : i \in {j \in DOMAIN trace : IsReturn(trace[j])}}

Obj(call) == call[1].res
Returned(call) == call[Len(call)].res
Notices(call) == SelectSeq(call, IsInfo)
BestLookups(call) == SelectSeq(call, IsBest)
LatestLookups(call) == SelectSeq(call, IsLatest)
MatchedExperiment(call) == Obj(call).err = Nil /\ Obj(call).Experiment # Nil
MatchedCheckpoint(call) == Obj(call).err = Nil /\ Obj(call).Checkpoint # Nil

\* Position of the first event of a call that satisfies IsInfo / IsLatest (0: none).
FirstInfo(call) ==
    IF \E i \in 1..Len(call) : IsInfo(call[i])
    THEN CHOOSE i \in 1..Len(call) : IsInfo(call[i]) /\ \A j \in 1..(i - 1) : ~IsInfo(call[j])
    ELSE 0
FirstLatest(call) ==
    IF \E i \in 1..Len(call) : IsLatest(call[i])
    THEN CHOOSE i \in 1..Len(call) : IsLatest(call[i]) /\ \A j \in 1..(i - 1) : ~IsLatest(call[j])
    ELSE 0

\* C2: when the prefix lookup yields an experiment, a checkpoint returned by the
\* best-checkpoint lookup is what loadCheckpoint returns, with the 'best'
\* notice; when that lookup returns none and the latest-checkpoint lookup
\* returns a checkpoint, that one is returned, with the 'latest' notice.
C2_BestThenLatest ==
    \A call \in Calls :
        MatchedExperiment(call) =>
            LET best == BestLookups(call)
                latest == LatestLookups(call)
            IN /\ Len(best) = 1
               /\ best[1].res.Checkpoint # Nil =>
                     /\ Returned(call) = Result(best[1].res.Checkpoint, Nil, Nil)
                     /\ Notices(call) = <<Info(BestNotice, call[1].arg)>>
               /\ (best[1].res = NoResult /\ Len(latest) = 1
                        /\ latest[1].res.Checkpoint # Nil) =>
                     /\ Returned(call) = Result(latest[1].res.Checkpoint, Nil, Nil)
                     /\ Notices(call) = <<Info(LatestNotice, call[1].arg)>>

C2_Witness ==
    \E c1, c2 \in Calls :
        /\ MatchedExperiment(c1) /\ MatchedExperiment(c2)
        /\ BestLookups(c1)[1].res.Checkpoint # Nil
        /\ Returned(c1).Checkpoint = BestLookups(c1)[1].res.Checkpoint
        /\ BestLookups(c2)[1].res = NoResult
        /\ Len(LatestLookups(c2)) = 1
        /\ LatestLookups(c2)[1].res.Checkpoint # Nil
        /\ Returned(c2).Checkpoint = LatestLookups(c2)[1].res.Checkpoint

\* C3: when the prefix lookup yields a checkpoint, loadCheckpoint returns it
\* without error, makes no other lookup and emits no notice.
C3_ExactCheckpoint ==
    \A call \in Calls :
        MatchedCheckpoint(call) =>
            /\ Returned(call) = Result(Obj(call).Checkpoint, Nil, Nil)
            /\ BestLookups(call) = << >>
            /\ LatestLookups(call) = << >>
            /\ Notices(call) = << >>
            /\ Len(call) = 2

C3_Witness ==
    \E call \in Calls :
        /\ MatchedCheckpoint(call)
        /\ Returned(call).Checkpoint = Obj(call).Checkpoint
        /\ \E e \in Experiments :
              ShortID(e.ID) = ShortID(Deref(Obj(call).Checkpoint).ExperimentID)

\* C4: when the prefix resolves to an experiment and both the best and the
\* latest lookup return no checkpoint and no error, loadCheckpoint returns no
\* checkpoint and the empty-experiment error naming the experiment's short ID.
C4_EmptyExperiment ==
    \A call \in Calls :
        (/\ MatchedExperiment(call)
         /\ Len(BestLookups(call)) = 1 /\ BestLookups(call)[1].res = NoResult
         /\ Len(LatestLookups(call)) = 1 /\ LatestLookups(call)[1].res = NoResult) =>
            /\ Returned(call).Checkpoint = Nil
            /\ Returned(call).err =
                  Ptr([msg |-> "Could not pick best checkpoint for experiment %q: it does not have any checkpoints.",
                       arg |-> ShortID(Deref(Obj(call).Experiment).ID)])

C4_Witness ==
    \E call \in Calls :
        /\ MatchedExperiment(call)
        /\ Len(LatestLookups(call)) = 1 /\ LatestLookups(call)[1].res = NoResult
        /\ Returned(call).err # Nil
        /\ Deref(Returned(call).err).msg = EmptyExperimentMsg

NumReturns == Len(SelectSeq(trace, IsReturn))
NumByID == Len(SelectSeq(trace, IsByID))
LookupFailed == err # Nil /\ (com1 = Nil \/ com2 = Nil \/ exp1 = Nil \/ exp2 = Nil)

\* C5: when one of the four lookups of printDiff fails (loadCheckpoint for
\* prefix1, for prefix2, ExperimentByID for the first checkpoint, for the
\* second), printDiff returns that error unchanged, makes no later lookup and
\* has written no row; no row is written before all four have succeeded.
C5_NoOutputOnLookupError ==
    /\ (w # << >> \/ out # << >>) =>
          /\ com1 # Nil /\ com2 # Nil /\ exp1 # Nil /\ exp2 # Nil
          /\ NumReturns = 2 /\ NumByID = 2
          /\ \A i \in DOMAIN trace :
                (IsReturn(trace[i]) \/ IsByID(trace[i])) => trace[i].res.err = Nil
    /\ LookupFailed =>
          /\ pc = "done"
          /\ w = << >> /\ out = << >>
          /\ trace[Len(trace)].res.err = err
          /\ \A i \in 1..(Len(trace) - 1) :
                (IsReturn(trace[i]) \/ IsByID(trace[i])) => trace[i].res.err = Nil
          /\ IF com1 = Nil THEN NumReturns = 1 /\ NumByID = 0
             ELSE IF com2 = Nil THEN NumReturns = 2 /\ NumByID = 0
             ELSE IF exp1 = Nil THEN NumReturns = 2 /\ NumByID = 1
             ELSE NumReturns = 2 /\ NumByID = 2

C5_Witness ==
    /\ pc = "done"
    /\ com1 # Nil /\ com2 = Nil
    /\ err = Error("ambiguous prefix", prefix2)
    /\ w = << >> /\ out = << >>

\* C10: within one loadCheckpoint call the notice depends only on the outcomes
\* of the prefix and best lookups: none if the prefix lookup fails or yields a
\* checkpoint or the best lookup errors (the latest lookup is then not made);
\* the 'best' notice if the best lookup returns a checkpoint; the 'latest'
\* notice otherwise, emitted before the latest lookup whatever that returns;
\* at most one notice; the returned value is set by the lookups alone.
C10_NoticePerCall ==
    \A call \in Calls :
        LET notices == Notices(call)
            best == BestLookups(call)
            latest == LatestLookups(call)
            lookups == SelectSeq(call, IsLookup)
            last == lookups[Len(lookups)].res
        IN /\ Len(notices) <= 1
           /\ (Obj(call).err # Nil \/ Obj(call).Checkpoint # Nil) => notices = << >>
           /\ MatchedExperiment(call) =>
                 /\ Len(best) = 1
                 /\ best[1].res.err # Nil => notices = << >> /\ latest = << >>
                 /\ best[1].res.Checkpoint # Nil =>
                       notices = <<Info(BestNotice, call[1].arg)>>
                 /\ best[1].res = NoResult =>
                       /\ notices = <<Info(LatestNotice, call[1].arg)>>
                       /\ Len(latest) = 1
                       /\ FirstInfo(call) < FirstLatest(call)
           /\ last.err # Nil => Returned(call) = Result(Nil, Nil, last.err)
           /\ last.Checkpoint # Nil => Returned(call) = Result(last.Checkpoint, Nil, Nil)

C10_Witness ==
    \E call \in Calls :
        /\ MatchedExperiment(call)
        /\ Notices(call) = <<Info(LatestNotice, call[1].arg)>>
        /\ Len(LatestLookups(call)) = 1
        /\ LatestLookups(call)[1].res.err # Nil
        /\ Returned(call).err = LatestLookups(call)[1].res.err

(***************************************************************************)
(* SpecMap: the two functions applied to every pair of maps                *)
(***************************************************************************)
IdleDiff ==
    /\ pc = "idle" /\ prefix1 = "" /\ prefix2 = ""
    /\ com1 = Nil /\ com2 = Nil /\ exp1 = Nil /\ exp2 = Nil
    /\ err = Nil /\ out = << >> /\ trace = << >>

InitMap ==
    /\ mpc = "start"
    /\ map1 \in StringMaps
    /\ map2 \in StringMaps
    /\ diffMap = EmptyMap
    /\ au \in BOOLEAN
    /\ w = << >>
    /\ IdleDiff

MapStringCall ==
    /\ mpc = "start"
    /\ \E lorder \in RangeOrders(map1), rorder \in RangeOrders(map2) :
          diffMap' = mapString(map1, map2, lorder, rorder)
    /\ mpc' = "mapString"
    /\ UNCHANGED <<map1, map2, au, w, diffVars>>

PrintMapDiffCall ==
    /\ mpc = "start"
    /\ \E lorder \in RangeOrders(map1), rorder \in RangeOrders(map2) :
          LET d == mapString(map1, map2, lorder, rorder)
          IN \E dorder \in RangeOrders(d) :
                w' = printMapDiff(w, au, map1, map2, lorder, rorder, dorder)
    /\ mpc' = "printMapDiff"
    /\ UNCHANGED <<map1, map2, diffMap, au, diffVars>>

NextMap == MapStringCall \/ PrintMapDiffCall

SpecMap == InitMap /\ [][NextMap]_vars

(***************************************************************************)
(* Properties of mapString and printMapDiff (checked under SpecMap)        *)
(***************************************************************************)
Dom1 == DOMAIN map1
Dom2 == DOMAIN map2

\* mapString(m1, m2) under one iteration order of each map.
DiffOf(m1, m2) ==
    mapString(m1, m2, CHOOSE o \in RangeOrders(m1) : TRUE,
                      CHOOSE o \in RangeOrders(m2) : TRUE)

\* C1: mapString(left, right) holds key k iff k is in exactly one of the maps
\* or in both with different values; its entry is (left[k], nil) for a key
\* only in left, (nil, right[k]) for a key only in right and
\* (left[k], right[k]) for a key in both; equal values are never in the result.
C1_MapStringEntries ==
    mpc = "mapString" =>
        /\ DOMAIN diffMap =
              {k \in Dom1 \cup Dom2 :
                  \/ k \notin Dom2
                  \/ k \notin Dom1
                  \/ map1[k] # map2[k]}
        /\ \A k \in DOMAIN diffMap :
              diffMap[k] = << IF k \in Dom1 THEN Ptr(map1[k]) ELSE Nil,
                              IF k \in Dom2 THEN Ptr(map2[k]) ELSE Nil >>

C1_Witness ==
    /\ mpc = "mapString"
    /\ \E a, b, c \in Keys :
          /\ a \in Dom1 \ Dom2 /\ a \in DOMAIN diffMap
          /\ b \in Dom2 \ Dom1 /\ b \in DOMAIN diffMap
          /\ c \in Dom1 \cap Dom2 /\ map1[c] # map2[c] /\ c \in DOMAIN diffMap

\* C6: mapString(L, R) and mapString(R, L) have the same keys, and each entry
\* of one is the entry of the other with its two sides exchanged.
C6_MapStringSymmetric ==
    mpc = "mapString" =>
        \A lorder \in RangeOrders(map2), rorder \in RangeOrders(map1) :
            LET rev == mapString(map2, map1, lorder, rorder)
            IN /\ DOMAIN rev = DOMAIN diffMap
               /\ \A k \in DOMAIN diffMap :
                     diffMap[k] = <<rev[k][2], rev[k][1]>>

C6_Witness ==
    /\ mpc = "mapString"
    /\ \E a, b \in DOMAIN diffMap :
          /\ diffMap[a][1] # Nil /\ diffMap[a][2] = Nil
          /\ diffMap[b][1] = Nil /\ diffMap[b][2] # Nil

\* C7: mapString(M, M) is empty for every M; for maps with disjoint key sets
\* the result has |L| + |R| entries, each with exactly one side nil.
C7_MapStringSelfAndDisjoint ==
    mpc = "mapString" =>
        /\ map1 = map2 => diffMap = EmptyMap
        /\ Dom1 \cap Dom2 = {} =>
              /\ Cardinality(DOMAIN diffMap) = Cardinality(Dom1) + Cardinality(Dom2)
              /\ \A k \in DOMAIN diffMap :
                    (diffMap[k][1] = Nil) # (diffMap[k][2] = Nil)

C7_Witness ==
    /\ mpc = "mapString"
    /\ Dom1 \cap Dom2 = {}
    /\ Cardinality(Dom1) >= 1
    /\ Cardinality(Dom2) >= 2
    /\ Cardinality(DOMAIN diffMap) = Cardinality(Dom1) + Cardinality(Dom2)

\* The key a row was written for: its first cell is the key followed by a colon.
IsKeyRow(row) == \E k \in Keys : row[1] = k \o ":"
RowKey(row) == CHOOSE k \in Keys : row[1] = k \o ":"

\* C8: printMapDiff writes one row per key of mapString(map1, map2), in
\* strictly increasing key order whatever the iteration orders were, and the
\* single "(no difference)" row iff the diff is empty, never both.
C8_RowsSortedOrPlaceholder ==
    mpc = "printMapDiff" =>
        LET d == DiffOf(map1, map2)
        IN IF DOMAIN d = {}
           THEN w = << <<Faint(au, "(no difference)"), "", "">> >>
           ELSE /\ Len(w) = Cardinality(DOMAIN d)
                /\ \A i \in 1..Len(w) : IsKeyRow(w[i]) /\ RowKey(w[i]) \in DOMAIN d
                /\ \A i, j \in 1..Len(w) :
                      i < j => StringLess(RowKey(w[i]), RowKey(w[j]))

C8_Witness ==
    /\ mpc = "printMapDiff"
    /\ Len(w) = 3
    /\ \A i \in 1..Len(w) : IsKeyRow(w[i])
    /\ StringLess(RowKey(w[1]), RowKey(w[2]))
    /\ StringLess(RowKey(w[2]), RowKey(w[3]))

\* C9: in the rows printMapDiff writes, a cell shows "(not set)" exactly where
\* that side has no value for the row's key.
C9_PlaceholderOnlyWhereAbsent ==
    mpc = "printMapDiff" =>
        \A i \in 1..Len(w) :
            IsKeyRow(w[i]) =>
                /\ (w[i][2] = "(not set)") <=> (RowKey(w[i]) \notin Dom1)
                /\ (w[i][3] = "(not set)") <=> (RowKey(w[i]) \notin Dom2)

====
